---------------------------- MODULE Spec2Model ----------------------------
(* Model of the complaint store and the layer store of sigades-map
   (src/app/complaint_service.py, src/app/geo_service.py, src/app/models.py,
   src/app/startup.py).

   Representation choices
   - Coordinates are fixed-precision decimals; they are written here in
     hundredths of a degree (-8.55 is -855, 116.15 is 11615).  The query
     bounds of get_complaints_in_area go through Decimal(str(x)), which for
     the short decimal literals used here is the literal itself, so both
     sides of every comparison live on the same grid.
   - Strings that the code takes apart (platform names, file names) are
     sequences of one-character strings, so that lower(), split(".") and
     str(len(..)) are computed and not assumed.
   - created_at comes from the wall clock (datetime.utcnow).  Only the order
     of the readings matters; a reading either repeats the latest stamp that
     was handed out or is later than it.
   - Python's hash() of a string is a function of the string; it is modelled
     as injective, i.e. by the hashed string itself.
   - validate_coordinates compares floats; the float nearest to a decimal
     literal grows with the literal, so on the grid of hundredths the
     comparisons come out as they do on the decimals.
   - The bytes of a layer upload are described by what the code asks of
     them: their number, and what zipfile finds in them.
   - seed_default_layers is modelled twice: as one step, for calls that run
     alone, and as its existence check followed by its insert, for the
     instances that start up together.
   - ret is the request/response of the last call made to the service. *)
EXTENDS Integers, Sequences, FiniteSets, TLC

VARIABLES complaints, photos, files, ret,
          static_layers, user_layers, layer_files, layer_dir_exists, pc,
          sessions

vars == <<complaints, photos, files, ret,
          static_layers, user_layers, layer_files, layer_dir_exists, pc,
          sessions>>

\* The tables and the directory of the complaint service.
complaint_vars == <<complaints, photos, files>>

\* The tables and the directory of the geospatial service, and the position
\* of each starting instance in seed_default_layers.  sessions holds the
\* requests of mark_redirected that are under way.
layer_vars == <<static_layers, user_layers, layer_files, layer_dir_exists, pc>>

--------------------------------------------------------------------------
(* Bounds *)

\* Complaints stored in a run of Spec or SpecQueries.
MaxComplaints == 2
\* Complaints and photo records stored in a run of SpecPhotos.
MaxRows == 3
\* Files in the upload directory.
MaxFiles == 1
\* User layers stored in a run of SpecLayers or SpecUploads.
MaxUserLayers == 2
\* Layers that are switched off at one time in a run of SpecLayers.
MaxInactive == 1
\* Points of a sequence passed to calculate_area.
MaxPoints == 4

--------------------------------------------------------------------------
(* Program constants *)

SUBMITTED == "submitted"
REDIRECTED == "redirected"
COMPLETED == "completed"

ComplaintStatus == {SUBMITTED, REDIRECTED, COMPLETED}

ALLOWED_PHOTO_TYPES == {"image/jpeg", "image/png", "image/gif", "image/webp"}

MAX_PHOTO_SIZE == 5 * 1024 * 1024

UPLOAD_DIR == "uploads/complaint_photos"

--------------------------------------------------------------------------
(* Strings as sequences of characters *)

UpperLetters ==
  <<"A","B","C","D","E","F","G","H","I","J","K","L","M",
    "N","O","P","Q","R","S","T","U","V","W","X","Y","Z">>

LowerLetters ==
  <<"a","b","c","d","e","f","g","h","i","j","k","l","m",
    "n","o","p","q","r","s","t","u","v","w","x","y","z">>

LowerChar(ch) ==
  IF \E i \in 1..26 : UpperLetters[i] = ch
  THEN LowerLetters[CHOOSE i \in 1..26 : UpperLetters[i] = ch]
  ELSE ch

\* str.lower()
Lower(s) == [i \in 1..Len(s) |-> LowerChar(s[i])]

Facebook == <<"f","a","c","e","b","o","o","k">>
Lapor == <<"l","a","p","o","r">>


Digits == <<"0","1","2","3","4","5","6","7","8","9">>

\* str(n) for a natural number n
RECURSIVE Str(_)
Str(n) ==
  IF n < 10 THEN <<Digits[n + 1]>>
  ELSE Str(n \div 10) \o <<Digits[(n % 10) + 1]>>

HasDot(s) == \E i \in 1..Len(s) : s[i] = "."

LastDot(s) == CHOOSE i \in 1..Len(s) :
                /\ s[i] = "."
                /\ \A j \in (i + 1)..Len(s) : s[j] # "."

\* filename.split(".")[-1] if "." in filename else "jpg"
FileExtension(filename) ==
  IF HasDot(filename)
  THEN SubSeq(filename, LastDot(filename) + 1, Len(filename))
  ELSE <<"j","p","g">>

--------------------------------------------------------------------------
(* Inputs *)

\* Coordinates in hundredths of a degree.
REGION_SOUTH == 0 - 880
REGION_WEST == 11590
REGION_NORTH == 0 - 830
REGION_EAST == 11640

get_west_lombok_bounds ==
  [south |-> REGION_SOUTH, west |-> REGION_WEST,
   north |-> REGION_NORTH, east |-> REGION_EAST]

\* The south-west corner of the region, the far point (-7.00, 117.00) of
\* the tests, and the default center.
Corner == [latitude |-> REGION_SOUTH, longitude |-> REGION_WEST]

Far == [latitude |-> 0 - 700, longitude |-> 11700]

Center == [latitude |-> 0 - 855, longitude |-> 11615]

Points == {Corner, Center, Far}

World == [south |-> 0 - 9000, west |-> 0 - 18000, north |-> 9000, east |-> 18000]

\* Query boxes: the region; the box that is the corner point alone, which
\* has the corner on all four of its bounds; four boxes that miss the corner
\* by one step, to the south, west, north and east; the region inverted.
Boxes ==
  { get_west_lombok_bounds,
    [south |-> Corner.latitude, west |-> Corner.longitude,
     north |-> Corner.latitude, east |-> Corner.longitude],
    [World EXCEPT !.south = Corner.latitude + 1],
    [World EXCEPT !.west = Corner.longitude + 1],
    [World EXCEPT !.north = Corner.latitude - 1],
    [World EXCEPT !.east = Corner.longitude - 1],
    [south |-> REGION_NORTH, west |-> REGION_EAST,
     north |-> REGION_SOUTH, east |-> REGION_WEST] }

Platforms ==
  { Facebook,
    <<"F","a","c","e","b","o","o","k">>,
    Lapor,
    <<"L","A","P","O","R">>,
    <<"t","w","i","t","t","e","r">> }


Content(n, b) == [size |-> n, body |-> b]

FileNameA == <<"a",".","j","p","g">>
FileNameB == <<"b",".","t","a","r",".","p","n","g">>
FileNameC == <<"c">>
FileNamePdf == <<"d",".","p","d","f">>

\* (filename, content, MIME type) of the uploads that are tried: three that
\* pass the validation, one of them of exactly MAX_PHOTO_SIZE bytes, one
\* with a MIME type that is not allowed and one that is one byte too large.
Uploads ==
  { [filename |-> FileNameA, content |-> Content(10, "x"), mime_type |-> "image/jpeg"],
    [filename |-> FileNameB, content |-> Content(MAX_PHOTO_SIZE, "x"), mime_type |-> "image/png"],
    [filename |-> FileNameC, content |-> Content(0, "x"), mime_type |-> "image/webp"],
    [filename |-> FileNamePdf, content |-> Content(10, "x"), mime_type |-> "application/pdf"],
    [filename |-> FileNameA, content |-> Content(MAX_PHOTO_SIZE + 1, "x"), mime_type |-> "image/jpeg"] }

DisplayOrders == {0, 1}

\* What the file system does with open(path, "wb") followed by write().
DiskOutcomes == {"ok", "open_fails", "write_fails"}

\* Latitudes and longitudes, in hundredths of a degree, that are passed to
\* validate_coordinates: the bounds of the region, their neighbours on
\* either side, the default center and the points of the tests.
Latitudes ==
  {0 - 9000, 0 - 950, 0 - 881, 0 - 880, 0 - 879, 0 - 855, 0 - 850,
   0 - 831, 0 - 830, 0 - 829, 0 - 700, 0}

Longitudes ==
  {0 - 18000, 0, 11500, 11589, 11590, 11591, 11600, 11615,
   11639, 11640, 11641, 11700}

\* The bytes of an upload: their number, what they are, and what zipfile
\* makes of them: whether they open as an archive and, if so, its entries
\* in archive order, each with its name and whether its data reads back.
Bytes(n, b) == [size |-> n, body |-> b, opens |-> FALSE, entries |-> <<>>]

Archive(n, b, entries) == [size |-> n, body |-> b, opens |-> TRUE, entries |-> entries]

Entry(name, intact) == [name |-> name, intact |-> intact]

\* The points with coordinates 0, 1 and 2.
GridPoints == {<<x, y>> : x \in 0..2, y \in 0..2}

LayerNameX == <<"x",".","k","m","l">>
LayerNameY == <<"y",".","k","m","z">>
LayerNameZ == <<"z",".","s","h","p">>

DocKml == <<"d","o","c",".","k","m","l">>
AltKml == <<"a","l","t",".","k","m","l">>
UpperKml == <<"D","O","C",".","K","M","L">>
IconPng == <<"i",".","p","n","g">>

\* upload_ip is <<>> for None and <<ip>> otherwise.
LayerUpload(file_content, filename, file_type, name, is_public, description, upload_ip) ==
  [file_content |-> file_content, filename |-> filename,
   file_type |-> file_type, name |-> name, is_public |-> is_public,
   description |-> description, upload_ip |-> upload_ip]

\* Two KML uploads with the same file name and the same number of bytes,
\* one public and one private.
PlainUploads ==
  { LayerUpload(Bytes(4, "aaaa"), LayerNameX, "kml", "Public Layer", TRUE,
                "Test layer description", <<"127.0.0.1">>),
    LayerUpload(Bytes(4, "bbbb"), LayerNameX, "kml", "Private Layer", FALSE, "", <<>>) }

\* Archives: one whose first .kml entry comes after another entry and
\* before a second .kml entry whose data is damaged; one without a .kml
\* entry (".KML" is not ".kml"); one whose first .kml entry is damaged and
\* whose second is not.
KmzUploads ==
  { LayerUpload(Archive(30, "zip1", <<Entry(IconPng, TRUE), Entry(DocKml, TRUE),
                                      Entry(AltKml, FALSE)>>),
                LayerNameY, "kmz", "Archive", TRUE, "", <<"10.0.0.7">>),
    LayerUpload(Archive(31, "zip2", <<Entry(IconPng, TRUE), Entry(UpperKml, TRUE)>>),
                LayerNameY, "kmz", "No KML", TRUE, "", <<>>),
    LayerUpload(Archive(32, "zip3", <<Entry(AltKml, FALSE), Entry(DocKml, TRUE)>>),
                LayerNameY, "kmz", "Damaged", TRUE, "", <<>>),
    LayerUpload(Bytes(4, "aaaa"), LayerNameY, "kmz", "Not an archive", TRUE,
                "", <<>>) }

\* A shapefile, and uploads that declare a type that is no FileType.
OtherUploads ==
  { LayerUpload(Bytes(7, "shp"), LayerNameZ, "shp", "Shapes", FALSE,
                "Parcels", <<>>),
    LayerUpload(Bytes(4, "aaaa"), LayerNameX, "gpx", "Track", TRUE, "", <<>>),
    LayerUpload(Archive(30, "zip1", <<Entry(DocKml, TRUE)>>),
                LayerNameY, "zip", "Zip", TRUE, "", <<>>) }

LayerUploads == PlainUploads \cup KmzUploads \cup OtherUploads

--------------------------------------------------------------------------
(* State *)

SetMax(S) == CHOOSE x \in S : \A y \in S : y <= x

Stamps ==
  {complaints[i].created_at : i \in 1..Len(complaints)}
    \cup {photos[i].created_at : i \in 1..Len(photos)}
    \cup {static_layers[i].created_at : i \in 1..Len(static_layers)}
    \cup {user_layers[i].created_at : i \in 1..Len(user_layers)}

\* datetime.utcnow(): the possible readings of the wall clock.
UtcNow == IF Stamps = {} THEN {0} ELSE {SetMax(Stamps), SetMax(Stamps) + 1}

NoCall == [op |-> "none"]

\* The ids a caller passes: those of the stored complaints, and one that
\* was never handed out.
ComplaintIds == 1..(Len(complaints) + 1)

\* The limits a caller passes: up to one more than there are complaints.
Limits == 0..(Len(complaints) + 1)

\* The instances of the application that start up.
Instances == {1, 2}

\* The requests that run mark_redirected at the same time, each in its own
\* database session.  A session is at "start" before its request, "loaded"
\* between session.get() and session.commit(), and "done" after; loaded is
\* the row as session.get() read it.
Sessions == {"a", "b"}

NoSession ==
  [pc |-> "start", complaint_id |-> 0, platform |-> <<>>, loaded |-> <<>>,
   ok |-> FALSE]

Init ==
  /\ complaints = <<>>
  /\ photos = <<>>
  /\ files = {}
  /\ ret = NoCall
  /\ static_layers = <<>>
  /\ user_layers = <<>>
  /\ layer_files = {}
  /\ layer_dir_exists = FALSE
  /\ pc = [i \in Instances |-> "start"]
  /\ sessions = [s \in Sessions |-> NoSession]


Exists(complaint_id) == complaint_id \in 1..Len(complaints)

--------------------------------------------------------------------------
(* create_complaint *)

NewComplaint(latitude, longitude, now) ==
  [latitude |-> latitude,
   longitude |-> longitude,
   status |-> SUBMITTED,
   facebook_redirected |-> FALSE,
   lapor_redirected |-> FALSE,
   created_at |-> now]

CreateCall(latitude, longitude, db, ok, id) ==
  [op |-> "create_complaint", latitude |-> latitude, longitude |-> longitude,
   db |-> db, ok |-> ok, id |-> id]

\* Mutant: coordinates outside the region are refused.
create_complaint_Validated(latitude, longitude, now, dbOk) ==
  /\ IF /\ dbOk
        /\ get_west_lombok_bounds.south <= latitude
        /\ latitude <= get_west_lombok_bounds.north
        /\ get_west_lombok_bounds.west <= longitude
        /\ longitude <= get_west_lombok_bounds.east
     THEN /\ complaints' = Append(complaints, NewComplaint(latitude, longitude, now))
          /\ ret' = CreateCall(latitude, longitude, "ok", TRUE, Len(complaints) + 1)
     ELSE /\ complaints' = complaints
          /\ ret' = CreateCall(latitude, longitude, IF dbOk THEN "ok" ELSE "fails",
                               FALSE, 0)
  /\ UNCHANGED <<photos, files>>
  /\ UNCHANGED layer_vars
  /\ UNCHANGED sessions

\* dbOk is whether session.commit() goes through; an exception is caught
\* and None is returned (id 0 stands for None).
create_complaint(latitude, longitude, now, dbOk) ==
  /\ IF dbOk
     THEN /\ complaints' = Append(complaints, NewComplaint(latitude, longitude, now))
          /\ ret' = CreateCall(latitude, longitude, "ok", TRUE, Len(complaints) + 1)
     ELSE /\ complaints' = complaints
          /\ ret' = CreateCall(latitude, longitude, "fails", FALSE, 0)
  /\ UNCHANGED <<photos, files>>
  /\ UNCHANGED layer_vars
  /\ UNCHANGED sessions

--------------------------------------------------------------------------
(* mark_redirected *)

\* Mutant: setting one flag clears the other.
SetFlagExclusive(c, platform) ==
  LET lowered == Lower(platform) IN
  IF lowered = Facebook
  THEN [c EXCEPT !.facebook_redirected = TRUE, !.lapor_redirected = FALSE]
  ELSE IF lowered = Lapor
       THEN [c EXCEPT !.lapor_redirected = TRUE, !.facebook_redirected = FALSE]
       ELSE c

\* Lines 201-204: the flag that the platform name selects is set.
SetFlag(c, platform) ==
  LET lowered == Lower(platform) IN
  IF lowered = Facebook
  THEN [c EXCEPT !.facebook_redirected = TRUE]
  ELSE IF lowered = Lapor
       THEN [c EXCEPT !.lapor_redirected = TRUE]
       ELSE c

\* Mutant: the status is advanced by one step on every call.
UpdateStatusIncrement(c) ==
  IF c.status = SUBMITTED
  THEN [c EXCEPT !.status = REDIRECTED]
  ELSE [c EXCEPT !.status = COMPLETED]

\* Lines 207-210: the status is set from the two flags.
UpdateStatus(c) ==
  IF c.facebook_redirected /\ c.lapor_redirected
  THEN [c EXCEPT !.status = COMPLETED]
  ELSE [c EXCEPT !.status = REDIRECTED]

\* before is the row as session.get() read it.
MarkCall(complaint_id, platform, ok, before) ==
  [op |-> "mark_redirected", complaint_id |-> complaint_id,
   platform |-> platform, ok |-> ok, before |-> before]

\* Mutant: a missing complaint is not told apart; the call reports success.
mark_redirected_NoLookup(complaint_id, platform, dbOk) ==
  /\ IF ~Exists(complaint_id)
     THEN /\ complaints' = complaints
          /\ ret' = MarkCall(complaint_id, platform, TRUE, <<>>)
     ELSE /\ complaints' =
               [complaints EXCEPT ![complaint_id] =
                  UpdateStatus(SetFlag(complaints[complaint_id], platform))]
          /\ ret' = MarkCall(complaint_id, platform, TRUE,
                             <<complaints[complaint_id]>>)
  /\ UNCHANGED <<photos, files>>
  /\ UNCHANGED layer_vars
  /\ UNCHANGED sessions

mark_redirected(complaint_id, platform, dbOk) ==
  /\ IF ~Exists(complaint_id)
     THEN /\ complaints' = complaints
          /\ ret' = MarkCall(complaint_id, platform, FALSE, <<>>)
     ELSE IF dbOk
          THEN /\ complaints' =
                    [complaints EXCEPT ![complaint_id] =
                       UpdateStatus(SetFlag(complaints[complaint_id], platform))]
               /\ ret' = MarkCall(complaint_id, platform, TRUE,
                                  <<complaints[complaint_id]>>)
          ELSE /\ complaints' = complaints
               /\ ret' = MarkCall(complaint_id, platform, FALSE,
                                  <<complaints[complaint_id]>>)
  /\ UNCHANGED <<photos, files>>
  /\ UNCHANGED layer_vars
  /\ UNCHANGED sessions

--------------------------------------------------------------------------
(* add_photo_to_complaint *)

\* Mutant: the size of the payload is not checked.
ValidationErrorNoSize(mime_type, file_content) ==
  IF mime_type \notin ALLOWED_PHOTO_TYPES THEN "unsupported_type" ELSE "none"

\* Mutant: a payload of exactly MAX_PHOTO_SIZE bytes is refused.
ValidationErrorExclusive(mime_type, file_content) ==
  IF mime_type \notin ALLOWED_PHOTO_TYPES THEN "unsupported_type"
  ELSE IF file_content.size >= MAX_PHOTO_SIZE THEN "too_large"
  ELSE "none"

\* Lines 67-71: the two validations, in the order of the code.
ValidationError(mime_type, file_content) ==
  IF mime_type \notin ALLOWED_PHOTO_TYPES THEN "unsupported_type"
  ELSE IF file_content.size > MAX_PHOTO_SIZE THEN "too_large"
  ELSE "none"

\* Lines 77-79: UPLOAD_DIR / complaint_{id}_{hash(filename + str(len))}.{ext}
PhotoPath(complaint_id, filename, file_content) ==
  [dir |-> UPLOAD_DIR,
   complaint_id |-> complaint_id,
   hash |-> filename \o Str(file_content.size),
   ext |-> FileExtension(filename)]

FileAt(path) == {f \in files : f.path = path}

\* open(path, "wb") creates or truncates the file; write() fills it.
Truncated == [size |-> 0, body |-> "partial"]

WriteFile(path, file_content) ==
  (files \ FileAt(path)) \cup {[path |-> path, content |-> file_content]}

\* Lines 82-83 under the three outcomes of the file system.
DiskAfter(path, file_content, disk) ==
  IF disk = "ok" THEN WriteFile(path, file_content)
  ELSE IF disk = "write_fails" THEN WriteFile(path, Truncated)
  ELSE files

NewPhoto(complaint_id, upload, path, display_order, now) ==
  [complaint_id |-> complaint_id,
   filename |-> upload.filename,
   file_path |-> path,
   file_size |-> upload.content.size,
   mime_type |-> upload.mime_type,
   display_order |-> display_order,
   created_at |-> now]

\* complaint_photos.complaint_id is a foreign key to complaints.id: the
\* insert of a photo of a complaint that does not exist is refused.
InsertAccepted(complaint_id, dbOk) == dbOk /\ Exists(complaint_id)

PhotoCall(complaint_id, upload, path, disk, db, ok, id) ==
  [op |-> "add_photo_to_complaint", complaint_id |-> complaint_id,
   mime_type |-> upload.mime_type, size |-> upload.content.size,
   body |-> upload.content.body, file_path |-> path, disk |-> disk, db |-> db, ok |-> ok, id |-> id]

\* Mutant: an error of the file system is swallowed.
WrittenAlways(disk) == TRUE

\* Lines 82-83: the with-block ends without an exception.
Written(disk) == disk = "ok"

\* Lines 86-100: the insert and commit, after the file was written.
SavePhoto(complaint_id, upload, display_order, path, disk) ==
  \E dbOk \in BOOLEAN :
    IF InsertAccepted(complaint_id, dbOk)
    THEN \E now \in UtcNow :
           /\ photos' = Append(photos,
                NewPhoto(complaint_id, upload, path, display_order, now))
           /\ ret' = PhotoCall(complaint_id, upload, path, disk, "ok", TRUE,
                               Len(photos) + 1)
    ELSE /\ photos' = photos
         /\ ret' = PhotoCall(complaint_id, upload, path, disk, "fails", FALSE, 0)

\* The file system and the database are consulted only by a call that gets
\* to them: disk and db are "not_reached" in the record of a call that
\* stopped earlier.  file_path is the path the call computes, or <<>> when
\* it stopped before computing one.
add_photo_to_complaint(complaint_id, upload, display_order) ==
  /\ IF ValidationError(upload.mime_type, upload.content) # "none"
     THEN /\ UNCHANGED <<photos, files>>
          /\ ret' = PhotoCall(complaint_id, upload, <<>>, "not_reached",
                              "not_reached", FALSE, 0)
     ELSE LET path == PhotoPath(complaint_id, upload.filename, upload.content) IN
          \E disk \in DiskOutcomes :
            /\ files' = DiskAfter(path, upload.content, disk)
            /\ IF Written(disk)
               THEN SavePhoto(complaint_id, upload, display_order, path, disk)
               ELSE /\ photos' = photos
                    /\ ret' = PhotoCall(complaint_id, upload, path, disk,
                                        "not_reached", FALSE, 0)
  /\ UNCHANGED complaints
  /\ UNCHANGED layer_vars
  /\ UNCHANGED sessions

--------------------------------------------------------------------------
(* Queries *)

Min(a, b) == IF a < b THEN a ELSE b

\* The rows S in every order without repetition.  A query returns them
\* in one of the orders that its ORDER BY admits: rows with equal keys may
\* come either way round.
RowOrders(S) ==
  {f \in [1..Cardinality(S) -> S] :
     \A i, j \in 1..Cardinality(S) : i # j => f[i] # f[j]}

\* Mutant: the photos are not filtered by complaint.
PhotosOfAny(complaint_id) == 1..Len(photos)

\* .where(ComplaintPhoto.complaint_id == complaint_id)
PhotosOf(complaint_id) ==
  {p \in 1..Len(photos) : photos[p].complaint_id = complaint_id}

\* order_by(display_order, created_at)
ByOrderThenCreated(p, q) ==
  \/ photos[p].display_order < photos[q].display_order
  \/ /\ photos[p].display_order = photos[q].display_order
     /\ photos[p].created_at <= photos[q].created_at

\* order_by(display_order)
ByOrder(p, q) == photos[p].display_order <= photos[q].display_order

\* order_by(created_at.desc())
NewestFirst(a, b) == complaints[a].created_at >= complaints[b].created_at

\* The photos of a complaint as get_complaint reads them.
PhotosByOrderThenCreated(complaint_id) ==
  {o \in RowOrders(PhotosOf(complaint_id)) :
     \A i \in 1..(Len(o) - 1) : ByOrderThenCreated(o[i], o[i + 1])}

\* The photos of a complaint as the list queries read them.
PhotosByOrder(complaint_id) ==
  {o \in RowOrders(PhotosOf(complaint_id)) :
     \A i \in 1..(Len(o) - 1) : ByOrder(o[i], o[i + 1])}

\* The complaints S, newest first.
ComplaintsNewestFirst(S) ==
  {o \in RowOrders(S) :
     \A i \in 1..(Len(o) - 1) : NewestFirst(o[i], o[i + 1])}

ComplaintPhotoResponse(p) ==
  [id |-> p,
   filename |-> photos[p].filename,
   file_path |-> photos[p].file_path,
   mime_type |-> photos[p].mime_type,
   display_order |-> photos[p].display_order]

PhotoResponses(order) == [i \in 1..Len(order) |-> ComplaintPhotoResponse(order[i])]

ComplaintResponse(complaint_id, photo_responses) ==
  [id |-> complaint_id,
   latitude |-> complaints[complaint_id].latitude,
   longitude |-> complaints[complaint_id].longitude,
   status |-> complaints[complaint_id].status,
   created_at |-> complaints[complaint_id].created_at,
   photos |-> photo_responses]

\* Lines 117-146: the responses get_complaint may build for a complaint.
DetailResponses(complaint_id) ==
  {ComplaintResponse(complaint_id, PhotoResponses(o)) :
     o \in PhotosByOrderThenCreated(complaint_id)}

\* Lines 157-188 and 240-271: the responses the list queries may build.
ListResponses(complaint_id) ==
  {ComplaintResponse(complaint_id, PhotoResponses(o)) :
     o \in PhotosByOrder(complaint_id)}

\* The response lists for the complaints taken in the order rows.
ResponsesFor(rows) ==
  {r \in [1..Len(rows) -> UNION {ListResponses(rows[i]) : i \in 1..Len(rows)}] :
     \A i \in 1..Len(rows) : r[i] \in ListResponses(rows[i])}

get_complaint(complaint_id) ==
  /\ IF ~Exists(complaint_id)
     THEN ret' = [op |-> "get_complaint", complaint_id |-> complaint_id,
                  found |-> FALSE, result |-> <<>>]
     ELSE \E r \in DetailResponses(complaint_id) :
            ret' = [op |-> "get_complaint", complaint_id |-> complaint_id,
                    found |-> TRUE, result |-> <<r>>]
  /\ UNCHANGED <<complaints, photos, files>>
  /\ UNCHANGED layer_vars
  /\ UNCHANGED sessions

\* select ... order_by(created_at.desc()).limit(limit)
RecentRows(limit) ==
  {SubSeq(o, 1, Min(limit, Len(o))) :
     o \in ComplaintsNewestFirst(1..Len(complaints))}

get_recent_complaints(limit) ==
  /\ \E rows \in RecentRows(limit) : \E r \in ResponsesFor(rows) :
       ret' = [op |-> "get_recent_complaints", limit |-> limit, result |-> r]
  /\ UNCHANGED <<complaints, photos, files>>
  /\ UNCHANGED layer_vars
  /\ UNCHANGED sessions

\* Mutant: the comparisons are strict.
InAreaStrict(c, south, west, north, east) ==
  /\ c.latitude > south
  /\ c.latitude < north
  /\ c.longitude > west
  /\ c.longitude < east

\* Lines 228-233: the WHERE clause.
InArea(c, south, west, north, east) ==
  /\ c.latitude >= south
  /\ c.latitude <= north
  /\ c.longitude >= west
  /\ c.longitude <= east

AreaRows(south, west, north, east) ==
  ComplaintsNewestFirst({i \in 1..Len(complaints) :
                           InArea(complaints[i], south, west, north, east)})

get_complaints_in_area(south, west, north, east) ==
  /\ \E rows \in AreaRows(south, west, north, east) : \E r \in ResponsesFor(rows) :
       ret' = [op |-> "get_complaints_in_area", south |-> south, west |-> west,
               north |-> north, east |-> east, result |-> r]
  /\ UNCHANGED <<complaints, photos, files>>
  /\ UNCHANGED layer_vars
  /\ UNCHANGED sessions

--------------------------------------------------------------------------
(* validate_coordinates *)

\* Mutant: the bounds themselves are outside.
validate_coordinates_Strict(latitude, longitude) ==
  /\ get_west_lombok_bounds.south < latitude
  /\ latitude < get_west_lombok_bounds.north
  /\ get_west_lombok_bounds.west < longitude
  /\ longitude < get_west_lombok_bounds.east

\* bounds["south"] <= latitude <= bounds["north"] and
\* bounds["west"] <= longitude <= bounds["east"]
validate_coordinates(latitude, longitude) ==
  /\ get_west_lombok_bounds.south <= latitude
  /\ latitude <= get_west_lombok_bounds.north
  /\ get_west_lombok_bounds.west <= longitude
  /\ longitude <= get_west_lombok_bounds.east

get_default_map_center == <<0 - 855, 11615>>

\* A caller asks whether a point is in the region.
ValidateCall(latitude, longitude) ==
  /\ ret' = [op |-> "validate_coordinates", latitude |-> latitude,
             longitude |-> longitude,
             result |-> validate_coordinates(latitude, longitude)]
  /\ UNCHANGED complaint_vars
  /\ UNCHANGED layer_vars
  /\ UNCHANGED sessions

--------------------------------------------------------------------------
(* Layers: seed_default_layers *)

RICE_FIELDS == "rice_fields"
IRRIGATION == "irrigation"
REGENCY_ROADS == "regency_roads"
REGENCY_BOUNDARIES == "regency_boundaries"
VILLAGE_BOUNDARIES == "village_boundaries"
USER_UPLOADED == "user_uploaded"

\* Lines 247-307.  Opacities are written in hundredths.
default_layers ==
  << [name |-> "Sawah (Rice Fields)", layer_type |-> RICE_FIELDS,
      display_order |-> 1,
      style_properties |-> [color |-> "#4CAF50", weight |-> 2, opacity |-> 80,
                            fillColor |-> "#81C784", fillOpacity |-> 60]],
     [name |-> "Irigasi (Irrigation)", layer_type |-> IRRIGATION,
      display_order |-> 2,
      style_properties |-> [color |-> "#2196F3", weight |-> 3, opacity |-> 90,
                            fillColor |-> "#64B5F6", fillOpacity |-> 40]],
     [name |-> "Jalan Kabupaten (Regency Roads)", layer_type |-> REGENCY_ROADS,
      display_order |-> 3,
      style_properties |-> [color |-> "#FF9800", weight |-> 4, opacity |-> 100]],
     [name |-> "Batas Kabupaten (Regency Boundaries)",
      layer_type |-> REGENCY_BOUNDARIES,
      display_order |-> 4,
      style_properties |-> [color |-> "#9C27B0", weight |-> 3, opacity |-> 100,
                            fillColor |-> "#CE93D8", fillOpacity |-> 10]],
     [name |-> "Batas Desa (Village Boundaries)",
      layer_type |-> VILLAGE_BOUNDARIES,
      display_order |-> 5,
      style_properties |-> [color |-> "#607D8B", weight |-> 2, opacity |-> 80,
                            fillColor |-> "#90A4AE", fillOpacity |-> 20]] >>

\* {"type": "FeatureCollection", "features": []}
EmptyFeatureCollection == [type |-> "FeatureCollection", features |-> <<>>]

\* Lines 310-320; is_active and source take the defaults of the model class.
NewStaticLayer(layer_data, now) ==
  [name |-> layer_data.name,
   layer_type |-> layer_data.layer_type,
   source |-> "BIG",
   geom_data |-> EmptyFeatureCollection,
   style_properties |-> layer_data.style_properties,
   is_active |-> TRUE,
   display_order |-> layer_data.display_order,
   created_at |-> now]

\* The rows are constructed in one loop; their created_at is taken to be
\* one reading of the clock (nothing compares the created_at of static
\* layers).
SeedRows(now) ==
  [i \in 1..Len(default_layers) |-> NewStaticLayer(default_layers[i], now)]

\* Mutant: the check reads the table of the user layers.
ExistingStaticLayerWrongTable == user_layers # <<>>

\* session.exec(select(StaticLayer)).first() is a row.
ExistingStaticLayer == static_layers # <<>>

SeedCall(existing, db, inserted) ==
  [op |-> "seed_default_layers", existing |-> existing, db |-> db,
   inserted |-> inserted]

\* Mutant: the catalog is inserted without its last entry.
InsertDefaultsShort(now) ==
  static_layers' = static_layers \o SubSeq(SeedRows(now), 1, 4)

\* Lines 309-323: the rows are added and committed in one transaction.
InsertDefaults(now) ==
  static_layers' = static_layers \o SeedRows(now)

\* A call of seed_default_layers that no other instance interleaves with.
\* A commit that fails raises out of the call and leaves the table as it was.
seed_default_layers ==
  /\ IF ExistingStaticLayer
     THEN /\ static_layers' = static_layers
          /\ ret' = SeedCall(TRUE, "not_reached", 0)
     ELSE \E dbOk \in BOOLEAN :
            IF dbOk
            THEN \E now \in UtcNow :
                   /\ InsertDefaults(now)
                   /\ ret' = SeedCall(FALSE, "ok", Len(default_layers))
            ELSE /\ static_layers' = static_layers
                 /\ ret' = SeedCall(FALSE, "fails", 0)
  /\ UNCHANGED <<user_layers, layer_files, layer_dir_exists, pc>>
  /\ UNCHANGED complaint_vars
  /\ UNCHANGED sessions

\* startup() of instance i, first half: the existence check of lines 241-245.
SeedCheck(i) ==
  /\ pc[i] = "start"
  /\ pc' = [pc EXCEPT ![i] = IF ExistingStaticLayer THEN "done" ELSE "insert"]
  /\ ret' = [op |-> "seed_check", instance |-> i, existing |-> ExistingStaticLayer]
  /\ UNCHANGED <<static_layers, user_layers, layer_files, layer_dir_exists>>
  /\ UNCHANGED complaint_vars
  /\ UNCHANGED sessions

\* startup() of instance i, second half: lines 247-323 after a check that
\* found no row.
SeedInsert(i) ==
  /\ pc[i] = "insert"
  /\ \E dbOk \in BOOLEAN :
       IF dbOk
       THEN \E now \in UtcNow :
              /\ InsertDefaults(now)
              /\ pc' = [pc EXCEPT ![i] = "done"]
              /\ ret' = [op |-> "seed_insert", instance |-> i, db |-> "ok"]
       ELSE /\ static_layers' = static_layers
            /\ pc' = [pc EXCEPT ![i] = "failed"]
            /\ ret' = [op |-> "seed_insert", instance |-> i, db |-> "fails"]
  /\ UNCHANGED <<user_layers, layer_files, layer_dir_exists>>
  /\ UNCHANGED complaint_vars
  /\ UNCHANGED sessions

--------------------------------------------------------------------------
(* Layers: activity updates *)

\* The activity update of a static layer (StaticLayerUpdate.is_active).
set_static_layer_active(layer_id, is_active) ==
  /\ layer_id \in 1..Len(static_layers)
  /\ static_layers' = [static_layers EXCEPT ![layer_id].is_active = is_active]
  /\ ret' = [op |-> "set_static_layer_active", layer_id |-> layer_id,
             is_active |-> is_active]
  /\ UNCHANGED <<user_layers, layer_files, layer_dir_exists, pc>>
  /\ UNCHANGED complaint_vars
  /\ UNCHANGED sessions

\* The activity update of a user layer.
set_user_layer_active(layer_id, is_active) ==
  /\ layer_id \in 1..Len(user_layers)
  /\ user_layers' = [user_layers EXCEPT ![layer_id].is_active = is_active]
  /\ ret' = [op |-> "set_user_layer_active", layer_id |-> layer_id,
             is_active |-> is_active]
  /\ UNCHANGED <<static_layers, layer_files, layer_dir_exists, pc>>
  /\ UNCHANGED complaint_vars
  /\ UNCHANGED sessions

--------------------------------------------------------------------------
(* Layers: file ingestion *)

KML == "kml"
KMZ == "kmz"
SHP == "shp"

FileType == {KML, KMZ, SHP}

\* str.endswith(suffix)
EndsWith(s, suffix) ==
  /\ Len(s) >= Len(suffix)
  /\ SubSeq(s, Len(s) - Len(suffix) + 1, Len(s)) = suffix

DotKml == <<".","k","m","l">>

\* {"type": "FeatureCollection", "features": [], "metadata": {...}}
FeatureCollection(filename, format) ==
  [type |-> "FeatureCollection",
   features |-> <<>>,
   metadata |-> [source_file |-> filename, processed |-> TRUE, format |-> format]]

\* The outcome of an ingestion: <<geom_data>>, or <<>> for a ValueError.
process_kml_file(file_content, filename) == <<FeatureCollection(filename, "kml")>>

\* Mutant: no geometry is produced for a shapefile and the column default
\* {} is stored.
process_shp_file_Empty(file_content, filename) == <<[k \in {} |-> k]>>

process_shp_file(file_content, filename) == <<FeatureCollection(filename, "shapefile")>>

\* [f for f in kmz.namelist() if f.endswith(".kml")]
kml_files(file_content) ==
  SelectSeq(file_content.entries, LAMBDA e : EndsWith(e.name, DotKml))

\* Mutant: the last .kml entry is taken.
FirstKmlLast(file_content) ==
  kml_files(file_content)[Len(kml_files(file_content))]

\* kml_files[0]
FirstKml(file_content) == kml_files(file_content)[1]

\* Lines 97-113.  ZipFile() raises on bytes that are no archive and
\* kmz.read() raises on an entry whose data is damaged; both end as a
\* ValueError.
process_kmz_file(file_content, filename) ==
  IF ~file_content.opens THEN <<>>
  ELSE IF kml_files(file_content) = <<>> THEN <<>>
       ELSE IF ~FirstKml(file_content).intact THEN <<>>
            ELSE process_kml_file(file_content, FirstKml(file_content).name)

\* Mutant: a type that is not known is ingested as KML.
IngestAny(file_content, filename, file_type) ==
  IF file_type = KMZ THEN process_kmz_file(file_content, filename)
  ELSE IF file_type = SHP THEN process_shp_file(file_content, filename)
  ELSE process_kml_file(file_content, filename)

\* Lines 142-150: the match on the declared type.
Ingest(file_content, filename, file_type) ==
  IF file_type = KML THEN process_kml_file(file_content, filename)
  ELSE IF file_type = KMZ THEN process_kmz_file(file_content, filename)
  ELSE IF file_type = SHP THEN process_shp_file(file_content, filename)
  ELSE <<>>

\* styles.get(file_type, styles[FileType.KML]); opacities in hundredths.
KmlStyle ==
  [color |-> "#3388ff", weight |-> 3, opacity |-> 80,
   fillColor |-> "#3388ff", fillOpacity |-> 20]

_get_default_style(file_type) ==
  IF file_type = KMZ
  THEN [color |-> "#ff7800", weight |-> 3, opacity |-> 80,
        fillColor |-> "#ff7800", fillOpacity |-> 20]
  ELSE IF file_type = SHP
       THEN [color |-> "#ff3333", weight |-> 3, opacity |-> 80,
             fillColor |-> "#ff3333", fillOpacity |-> 20]
       ELSE KmlStyle

--------------------------------------------------------------------------
(* Layers: save_user_layer *)

LAYER_UPLOAD_DIR == "uploads/user_layers"

\* Line 157: upload_dir / f"{hash(filename + str(len(file_content)))}-{filename}"
LayerPath(filename, file_content) ==
  [dir |-> LAYER_UPLOAD_DIR,
   hash |-> filename \o Str(file_content.size),
   filename |-> filename]

LayerFileAt(path) == {f \in layer_files : f.path = path}

WriteLayerFile(path, content) ==
  (layer_files \ LayerFileAt(path)) \cup {[path |-> path, content |-> content]}

\* What the file system does with mkdir(), open(path, "wb") and write().
\* mkdir(parents=True, exist_ok=True) of a directory that exists succeeds.
LayerDiskOutcomes ==
  {"ok", "open_fails", "write_fails"}
    \cup (IF layer_dir_exists THEN {} ELSE {"mkdir_fails"})

\* Lines 153-159 under the outcomes of the file system.
LayerDiskAfter(path, file_content, disk) ==
  IF disk = "ok" THEN WriteLayerFile(path, file_content)
  ELSE IF disk = "write_fails"
       THEN WriteLayerFile(path, [file_content EXCEPT !.size = 0, !.body = "partial"])
       ELSE layer_files

\* Mutant: is_public is not passed on and takes its default.
NewUserLayerPrivate(upload, path, geom_data, now) ==
  [name |-> upload.name,
   description |-> upload.description,
   file_type |-> upload.file_type,
   original_filename |-> upload.filename,
   file_path |-> path,
   file_size |-> upload.file_content.size,
   geom_data |-> geom_data,
   style_properties |-> _get_default_style(upload.file_type),
   is_public |-> FALSE,
   is_active |-> TRUE,
   upload_ip |-> upload.upload_ip,
   created_at |-> now]

\* Lines 163-174; is_active and created_at take the defaults of the model
\* class.
NewUserLayer(upload, path, geom_data, now) ==
  [name |-> upload.name,
   description |-> upload.description,
   file_type |-> upload.file_type,
   original_filename |-> upload.filename,
   file_path |-> path,
   file_size |-> upload.file_content.size,
   geom_data |-> geom_data,
   style_properties |-> _get_default_style(upload.file_type),
   is_public |-> upload.is_public,
   is_active |-> TRUE,
   upload_ip |-> upload.upload_ip,
   created_at |-> now]

\* ingested is the outcome of the ingestion, file_path the path the call
\* computes (<<>> when it stopped before), disk and db what the file system
\* and the database did ("not_reached" when the call stopped before), id
\* the id of the new row (0 for None).
SaveCall(upload, ingested, path, disk, db, ok, id) ==
  [op |-> "save_user_layer", upload |-> upload, ingested |-> ingested,
   file_path |-> path, disk |-> disk, db |-> db, ok |-> ok, id |-> id]

\* Mutant: the file is stored before the upload is ingested.
PersistAlways(ingested) == TRUE

\* Lines 142-152: the statements after the match are reached.
Persist(ingested) == ingested # <<>>

\* Lines 162-179: the insert and commit.
SaveLayerRow(upload, ingested, path, disk) ==
  \E dbOk \in BOOLEAN :
    IF dbOk /\ ingested # <<>>      \* geom_data is bound by the match
    THEN \E now \in UtcNow :
           /\ user_layers' = Append(user_layers,
                NewUserLayer(upload, path, ingested[1], now))
           /\ ret' = SaveCall(upload, ingested, path, disk, "ok", TRUE,
                              Len(user_layers) + 1)
    ELSE /\ user_layers' = user_layers
         /\ ret' = SaveCall(upload, ingested, path, disk, "fails", FALSE, 0)

save_user_layer(upload) ==
  /\ LET ingested == Ingest(upload.file_content, upload.filename, upload.file_type) IN
     IF ~Persist(ingested)
     THEN /\ UNCHANGED <<user_layers, layer_files, layer_dir_exists>>
          /\ ret' = SaveCall(upload, ingested, <<>>, "not_reached",
                             "not_reached", FALSE, 0)
     ELSE LET path == LayerPath(upload.filename, upload.file_content) IN
          \E disk \in LayerDiskOutcomes :
            /\ layer_dir_exists' = (layer_dir_exists \/ disk # "mkdir_fails")
            /\ layer_files' = LayerDiskAfter(path, upload.file_content, disk)
            /\ IF disk = "ok"
               THEN SaveLayerRow(upload, ingested, path, disk)
               ELSE /\ user_layers' = user_layers
                    /\ ret' = SaveCall(upload, ingested, path, disk,
                                       "not_reached", FALSE, 0)
  /\ UNCHANGED <<static_layers, pc>>
  /\ UNCHANGED complaint_vars
  /\ UNCHANGED sessions

--------------------------------------------------------------------------
(* Layers: get_all_active_layers *)

\* .where(StaticLayer.is_active)
ActiveStaticLayers == {i \in 1..Len(static_layers) : static_layers[i].is_active}

\* Mutant: the private layers are listed too.
PublicUserLayersAll == {i \in 1..Len(user_layers) : user_layers[i].is_active}

\* .where(UserLayer.is_active, UserLayer.is_public)
PublicUserLayers ==
  {i \in 1..Len(user_layers) :
     user_layers[i].is_active /\ user_layers[i].is_public}

\* order_by(display_order): the rows S in the orders the database may
\* return them; rows with equal display_order come either way round.
RECURSIVE StaticByDisplayOrder(_)
StaticByDisplayOrder(S) ==
  IF S = {} THEN {<<>>}
  ELSE UNION { {<<x>> \o t : t \in StaticByDisplayOrder(S \ {x})} :
               x \in {y \in S : \A z \in S :
                        static_layers[y].display_order <= static_layers[z].display_order} }

\* order_by(created_at.desc())
RECURSIVE UserNewestFirst(_)
UserNewestFirst(S) ==
  IF S = {} THEN {<<>>}
  ELSE UNION { {<<x>> \o t : t \in UserNewestFirst(S \ {x})} :
               x \in {y \in S : \A z \in S :
                        user_layers[y].created_at >= user_layers[z].created_at} }

\* Lines 27-39
StaticLayerResponse(i) ==
  [id |-> i,
   name |-> static_layers[i].name,
   layer_type |-> static_layers[i].layer_type,
   is_active |-> static_layers[i].is_active,
   geom_data |-> static_layers[i].geom_data,
   style_properties |-> static_layers[i].style_properties,
   created_at |-> static_layers[i].created_at]

\* Lines 48-60
UserLayerResponse(i) ==
  [id |-> i,
   name |-> user_layers[i].name,
   layer_type |-> USER_UPLOADED,
   is_active |-> user_layers[i].is_active,
   geom_data |-> user_layers[i].geom_data,
   style_properties |-> user_layers[i].style_properties,
   created_at |-> user_layers[i].created_at]

get_all_active_layers ==
  /\ \E s \in StaticByDisplayOrder(ActiveStaticLayers),
        u \in UserNewestFirst(PublicUserLayers) :
       ret' = [op |-> "get_all_active_layers",
               result |-> [i \in 1..Len(s) |-> StaticLayerResponse(s[i])]
                            \o [i \in 1..Len(u) |-> UserLayerResponse(u[i])]]
  /\ UNCHANGED complaint_vars
  /\ UNCHANGED layer_vars
  /\ UNCHANGED sessions

--------------------------------------------------------------------------
(* calculate_area *)

Abs(x) == IF x < 0 THEN 0 - x ELSE x

\* Lines 206-209: the loop from index i on (indices from 0, as in the code),
\* with the running value of area.
RECURSIVE ShoelaceLoop(_, _, _)
ShoelaceLoop(coordinates, i, area) ==
  IF i >= Len(coordinates) THEN area
  ELSE LET j == (i + 1) % Len(coordinates) IN
       ShoelaceLoop(coordinates, i + 1,
                    area + coordinates[i + 1][1] * coordinates[j + 1][2]
                         - coordinates[j + 1][1] * coordinates[i + 1][2])

\* Mutant: the last point is not paired with the first.
calculate_area_Open(coordinates) ==
  IF Len(coordinates) < 3 THEN 0
  ELSE Abs(ShoelaceLoop(SubSeq(coordinates, 1, Len(coordinates) - 1), 0, 0)
           - ( coordinates[Len(coordinates) - 1][1] * coordinates[1][2]
               - coordinates[1][1] * coordinates[Len(coordinates) - 1][2] ))

\* Lines 200-211.  A point is <<x, y>> with whole-numbered x and y.  The
\* result is written in halves of a square unit, so that abs(area) / 2.0
\* is the whole number abs(area).
calculate_area(coordinates) ==
  IF Len(coordinates) < 3 THEN 0
  ELSE Abs(ShoelaceLoop(coordinates, 0, 0))

\* A caller asks for the area of a point sequence.
AreaCall(coordinates) ==
  /\ ret' = [op |-> "calculate_area", coordinates |-> coordinates,
             result |-> calculate_area(coordinates)]
  /\ UNCHANGED complaint_vars
  /\ UNCHANGED layer_vars
  /\ UNCHANGED sessions

--------------------------------------------------------------------------
(* mark_redirected, one database session per request *)

\* Two requests for the same complaint run side by side when the buttons of
\* the redirect dialog (redirect_to_facebook, redirect_to_lapor) are used
\* from two browser tabs.  The body of mark_redirected is then two steps
\* of each session: session.get() reads the row, and session.commit()
\* flushes what the request changed in its own copy.

RacePlatforms == {Facebook, Lapor}

\* Line 197-199: session.get() reads the row; a missing row ends the
\* request with False.
MarkLoad(s, complaint_id, platform) ==
  /\ sessions[s].pc # "loaded"
  /\ sessions' =
       [sessions EXCEPT ![s] =
          IF Exists(complaint_id)
          THEN [pc |-> "loaded", complaint_id |-> complaint_id,
                platform |-> platform,
                loaded |-> <<complaints[complaint_id]>>, ok |-> FALSE]
          ELSE [pc |-> "done", complaint_id |-> complaint_id,
                platform |-> platform, loaded |-> <<>>, ok |-> FALSE]]
  /\ UNCHANGED <<complaints, photos, files, ret>>
  /\ UNCHANGED layer_vars

\* Lines 212-213: the flush of the unit of work writes the columns whose
\* value differs from the one the session loaded, and no other column;
\* row is the stored row at that time.
Flushed(row, loaded, edited) ==
  [f \in DOMAIN row |-> IF edited[f] # loaded[f] THEN edited[f] ELSE row[f]]

\* Lines 201-214: the flag and the status are set on the session's copy and
\* committed; dbOk is whether the commit goes through.
MarkCommit(s, dbOk) ==
  /\ sessions[s].pc = "loaded"
  /\ LET me == sessions[s]
         loaded == me.loaded[1]
         edited == UpdateStatus(SetFlag(loaded, me.platform))
     IN /\ complaints' =
             IF dbOk
             THEN [complaints EXCEPT ![me.complaint_id] =
                     Flushed(@, loaded, edited)]
             ELSE complaints
        /\ sessions' = [sessions EXCEPT ![s].pc = "done", ![s].ok = dbOk]
  /\ UNCHANGED <<photos, files, ret>>
  /\ UNCHANGED layer_vars

--------------------------------------------------------------------------
(* Specifications *)

\* The redirect state machine: complaints at the default center are
\* created, marked and read back.
Next ==
  \/ /\ Len(complaints) < MaxComplaints
     /\ \E now \in UtcNow, dbOk \in BOOLEAN :
          create_complaint(Center.latitude, Center.longitude, now, dbOk)
  \/ \E id \in ComplaintIds, platform \in Platforms, dbOk \in BOOLEAN :
       mark_redirected(id, platform, dbOk)
  \/ \E id \in ComplaintIds : get_complaint(id)

Spec == Init /\ [][Next]_vars

\* Complaints inside and outside the region and the three queries.
NextQueries ==
  \/ /\ Len(complaints) < MaxComplaints
     /\ \E p \in Points, now \in UtcNow, dbOk \in BOOLEAN :
          create_complaint(p.latitude, p.longitude, now, dbOk)
  \/ \E id \in ComplaintIds : get_complaint(id)
  \/ \E limit \in Limits : get_recent_complaints(limit)
  \/ \E b \in Boxes : get_complaints_in_area(b.south, b.west, b.north, b.east)

SpecQueries == Init /\ [][NextQueries]_vars

Rows == Len(complaints) + Len(photos)

\* Complaints at the default center and their photo attachments.
NextPhotos ==
  \/ /\ Rows < MaxRows
     /\ \E now \in UtcNow, dbOk \in BOOLEAN :
          create_complaint(Center.latitude, Center.longitude, now, dbOk)
  \/ /\ Rows < MaxRows
     /\ \E id \in ComplaintIds, upload \in Uploads, display_order \in DisplayOrders :
          /\ \/ ValidationError(upload.mime_type, upload.content) # "none"
             \/ Cardinality(files) < MaxFiles
             \/ FileAt(PhotoPath(id, upload.filename, upload.content)) # {}
          /\ add_photo_to_complaint(id, upload, display_order)
  \/ \E id \in ComplaintIds : get_complaint(id)

SpecPhotos == Init /\ [][NextPhotos]_vars

\* The points of the region check.
NextRegion ==
  \E latitude \in Latitudes, longitude \in Longitudes :
    ValidateCall(latitude, longitude)

SpecRegion == Init /\ [][NextRegion]_vars

InactiveLayers ==
  Cardinality({i \in 1..Len(static_layers) : ~static_layers[i].is_active})
    + Cardinality({i \in 1..Len(user_layers) : ~user_layers[i].is_active})

\* One instance seeds; KML layers are uploaded, layers are switched off and
\* on, and the layers are listed.
NextLayers ==
  \/ seed_default_layers
  \/ /\ Len(user_layers) < MaxUserLayers
     /\ \E upload \in PlainUploads : save_user_layer(upload)
  \/ \E id \in 1..Len(static_layers), is_active \in BOOLEAN :
       /\ is_active \/ InactiveLayers < MaxInactive
       /\ set_static_layer_active(id, is_active)
  \/ \E id \in 1..Len(user_layers), is_active \in BOOLEAN :
       /\ is_active \/ InactiveLayers < MaxInactive
       /\ set_user_layer_active(id, is_active)
  \/ get_all_active_layers

SpecLayers == Init /\ [][NextLayers]_vars

\* Uploads of every kind into a store that is seeded at some time.
NextUploads ==
  \/ seed_default_layers
  \/ \E upload \in LayerUploads :
       /\ \/ Len(user_layers) < MaxUserLayers
          \/ ~Persist(Ingest(upload.file_content, upload.filename, upload.file_type))
       /\ save_user_layer(upload)
  \/ get_all_active_layers

SpecUploads == Init /\ [][NextUploads]_vars

\* Two instances start at the same time against one database.
NextSeed ==
  \/ \E i \in Instances : SeedCheck(i)
  \/ \E i \in Instances : SeedInsert(i)
  \/ get_all_active_layers

SpecSeed == Init /\ [][NextSeed]_vars

\* The point sequence of the last area call.
LastCoordinates == IF ret.op = "calculate_area" THEN ret.coordinates ELSE <<>>

\* The area is asked for point sequences that grow by one point of the
\* grid at a time, and for the empty sequence.
NextArea ==
  \/ /\ Len(LastCoordinates) < MaxPoints
     /\ \E p \in GridPoints : AreaCall(Append(LastCoordinates, p))
  \/ AreaCall(<<>>)

SpecArea == Init /\ [][NextArea]_vars

--------------------------------------------------------------------------
(* Concurrent redirect requests *)

NextMarkRace ==
  \/ /\ Len(complaints) < MaxComplaints
     /\ \E now \in UtcNow, dbOk \in BOOLEAN :
          create_complaint(Center.latitude, Center.longitude, now, dbOk)
  \/ \E s \in Sessions, id \in ComplaintIds, platform \in RacePlatforms :
       MarkLoad(s, id, platform)
  \/ \E s \in Sessions, dbOk \in BOOLEAN : MarkCommit(s, dbOk)

SpecMarkRace == Init /\ [][NextMarkRace]_vars

--------------------------------------------------------------------------
(* Photos in the list queries *)

\* Two uploads with the same file name and the same number of bytes whose
\* bytes differ.
TwinUploads ==
  { [filename |-> FileNameA, content |-> Content(10, "x"), mime_type |-> "image/jpeg"],
    [filename |-> FileNameA, content |-> Content(10, "y"), mime_type |-> "image/jpeg"] }

\* Complaints with photos, read by the detail query and by both list
\* queries.
NextAlbum ==
  \/ /\ Rows < MaxRows
     /\ \E now \in UtcNow, dbOk \in BOOLEAN :
          create_complaint(Center.latitude, Center.longitude, now, dbOk)
  \/ /\ Rows < MaxRows
     /\ \E id \in ComplaintIds, upload \in TwinUploads, display_order \in DisplayOrders :
          add_photo_to_complaint(id, upload, display_order)
  \/ \E id \in ComplaintIds : get_complaint(id)
  \/ \E limit \in Limits : get_recent_complaints(limit)
  \/ get_complaints_in_area(World.south, World.west, World.north, World.east)

SpecAlbum == Init /\ [][NextAlbum]_vars

--------------------------------------------------------------------------
(* Claims about mark_redirected *)

\* The status the state machine of the specification gives to two flags.
StatusOfFlags(facebook, lapor) ==
  IF facebook /\ lapor THEN COMPLETED
  ELSE IF facebook \/ lapor THEN REDIRECTED
  ELSE SUBMITTED

\* C1: in every reachable state each complaint's status is the one its two
\* redirect flags determine: SUBMITTED with no flag set, REDIRECTED with
\* exactly one, COMPLETED with both.
C1_StatusFromFlags ==
  \A i \in 1..Len(complaints) :
    complaints[i].status =
      StatusOfFlags(complaints[i].facebook_redirected, complaints[i].lapor_redirected)

IsMark(call) == call.op = "mark_redirected"

\* C2: when a successful mark_redirected(id, p) is followed by a call of
\* mark_redirected with the same id and the same platform in any letter
\* case, the second call leaves the complaint's flags and status (and every
\* other complaint) as the first call left them.
C2_RemarkIdempotent ==
  [][ ( /\ IsMark(ret) /\ ret.ok
        /\ IsMark(ret')
        /\ ret'.complaint_id = ret.complaint_id
        /\ Lower(ret'.platform) = Lower(ret.platform) )
      => complaints' = complaints ]_vars

\* C2 witness: a successful call for facebook, written in another letter
\* case, on a complaint whose facebook flag was already set.
C2_Witness ==
  /\ IsMark(ret) /\ ret.ok
  /\ ret.platform # Facebook
  /\ Lower(ret.platform) = Facebook
  /\ ret.before[1].facebook_redirected
  /\ complaints[ret.complaint_id] = ret.before[1]

\* C3: mark_redirected on an id that does not exist returns false and
\* changes nothing: no complaint is created and none is modified.
C3_MissingComplaint ==
  [][ (IsMark(ret') /\ ~Exists(ret'.complaint_id))
      => /\ ret'.ok = FALSE
         /\ complaints' = complaints
         /\ photos' = photos
         /\ files' = files ]_vars

\* C3 witness: such a call was made while other complaints were stored.
C3_Witness ==
  /\ IsMark(ret)
  /\ ~Exists(ret.complaint_id)
  /\ ret.ok = FALSE
  /\ Len(complaints) > 0


--------------------------------------------------------------------------
(* Claims about add_photo_to_complaint *)

IsPhotoCall(call) == call.op = "add_photo_to_complaint"

DiskFailed(call) == call.disk \in {"open_fails", "write_fails"}

\* C4: every stored photo record has one of the four image MIME types and
\* at most 5,242,880 bytes, and a call with another MIME type or a larger
\* payload stores no record and writes no file.
C4_StoredPhotosValid ==
  /\ [](\A p \in 1..Len(photos) :
          /\ photos[p].mime_type \in
               {"image/jpeg", "image/png", "image/gif", "image/webp"}
          /\ photos[p].file_size <= 5242880)
  /\ [][ ( /\ IsPhotoCall(ret')
           /\ \/ ret'.mime_type \notin
                   {"image/jpeg", "image/png", "image/gif", "image/webp"}
              \/ ret'.size > 5242880 )
         => /\ photos' = photos
            /\ files' = files
            /\ ret'.ok = FALSE ]_vars

\* C4 witness: a photo is stored and the last call, with a payload that is
\* too large, was refused.
C4_Witness ==
  /\ IsPhotoCall(ret)
  /\ ret.size > 5242880
  /\ ret.ok = FALSE
  /\ Len(photos) > 0

\* C5: for an existing complaint, an allowed MIME type and storage that
\* does not fail, a payload of at most 5,242,880 bytes is accepted and
\* yields a photo record of that size, and a payload of 5,242,881 bytes or
\* more is refused and yields none.
C5_SizeLimitInclusive ==
  [][ ( /\ IsPhotoCall(ret')
        /\ Exists(ret'.complaint_id)
        /\ ret'.mime_type \in ALLOWED_PHOTO_TYPES
        /\ ~DiskFailed(ret')
        /\ ret'.db # "fails" )
      => IF ret'.size <= 5242880
         THEN /\ ret'.ok
              /\ Len(photos') = Len(photos) + 1
              /\ ret'.id = Len(photos')
              /\ photos'[ret'.id].file_size = ret'.size
              /\ photos'[ret'.id].complaint_id = ret'.complaint_id
         ELSE /\ ret'.ok = FALSE
              /\ photos' = photos ]_vars

\* C5 witness: a payload of exactly 5,242,880 bytes was accepted.
C5_Witness ==
  /\ IsPhotoCall(ret)
  /\ ret.size = 5242880
  /\ ret.ok
  /\ photos[ret.id].file_size = 5242880

\* C6: the file is written before the record is inserted: a call whose
\* disk write fails creates no record, and a call that creates a record
\* has written its file.
C6_FileBeforeRecord ==
  [][ IsPhotoCall(ret') =>
        /\ DiskFailed(ret') => (photos' = photos /\ ret'.ok = FALSE)
        /\ photos' # photos =>
             /\ ret'.disk = "ok"
             /\ \E f \in files' :
                  /\ f.path = ret'.file_path
                  /\ f.content.size = ret'.size ]_vars

\* C6 witness: a write failed after the file was opened, and the complaint
\* of the call has no photo.
C6_Witness ==
  /\ IsPhotoCall(ret)
  /\ ret.disk = "write_fails"
  /\ Exists(ret.complaint_id)
  /\ FileAt(ret.file_path) # {}
  /\ PhotosOf(ret.complaint_id) = {}


--------------------------------------------------------------------------
(* Claims about the queries *)

ResultIds(call) == {call.result[i].id : i \in 1..Len(call.result)}

IsAreaCall(call) == call.op = "get_complaints_in_area"

RegionCall(call) ==
  /\ IsAreaCall(call)
  /\ call.south = 0 - 880 /\ call.west = 11590
  /\ call.north = 0 - 830 /\ call.east = 11640

OutsideRegion(c) ==
  \/ c.latitude < 0 - 880 \/ c.latitude > 0 - 830
  \/ c.longitude < 11590 \/ c.longitude > 11640

\* C7: get_complaints_in_area returns exactly the stored complaints with
\* south <= latitude <= north and west <= longitude <= east, each once, in
\* descending order of creation time, and an empty list for an inverted box.
C7_AreaQuery ==
  IsAreaCall(ret) =>
    /\ ResultIds(ret) =
         {i \in 1..Len(complaints) :
            /\ ret.south <= complaints[i].latitude
            /\ complaints[i].latitude <= ret.north
            /\ ret.west <= complaints[i].longitude
            /\ complaints[i].longitude <= ret.east}
    /\ Len(ret.result) = Cardinality(ResultIds(ret))
    /\ \A i \in 1..Len(ret.result) :
         /\ ret.result[i].latitude = complaints[ret.result[i].id].latitude
         /\ ret.result[i].longitude = complaints[ret.result[i].id].longitude
    /\ \A i, j \in 1..Len(ret.result) :
         i < j => ret.result[i].created_at >= ret.result[j].created_at
    /\ (ret.south > ret.north \/ ret.west > ret.east) => ret.result = <<>>

\* C7 witness: a query for the box that is one point returned the
\* complaint at that point, which lies on all four bounds, and left out a
\* newer complaint elsewhere.
C7_Witness ==
  /\ IsAreaCall(ret)
  /\ ret.south = ret.north /\ ret.west = ret.east
  /\ Len(ret.result) = 1
  /\ ret.result[1].latitude = ret.south
  /\ ret.result[1].longitude = ret.west
  /\ Len(complaints) > 1

\* C8: create_complaint does not validate coordinates: whenever the
\* database accepts the row the call yields a complaint with the given
\* coordinates, status SUBMITTED and both flags false; a complaint outside
\* the region is returned by get_complaint and by get_recent_complaints
\* (with a limit that covers the store) and never by the region query.
C8_CreateUnvalidated ==
  /\ (ret.op = "create_complaint" /\ ret.db = "ok") =>
       /\ ret.ok
       /\ ret.id = Len(complaints)
       /\ complaints[ret.id].latitude = ret.latitude
       /\ complaints[ret.id].longitude = ret.longitude
       /\ complaints[ret.id].status = SUBMITTED
       /\ ~complaints[ret.id].facebook_redirected
       /\ ~complaints[ret.id].lapor_redirected
  /\ RegionCall(ret) =>
       \A i \in 1..Len(complaints) :
         OutsideRegion(complaints[i]) => i \notin ResultIds(ret)
  /\ (ret.op = "get_complaint" /\ Exists(ret.complaint_id)) =>
       /\ ret.found
       /\ ret.result[1].id = ret.complaint_id
       /\ ret.result[1].latitude = complaints[ret.complaint_id].latitude
       /\ ret.result[1].longitude = complaints[ret.complaint_id].longitude
  /\ (ret.op = "get_recent_complaints" /\ ret.limit >= Len(complaints)) =>
       ResultIds(ret) = 1..Len(complaints)

\* C8 witness: the region query returned a complaint while a complaint
\* outside the region was stored.
C8_Witness ==
  /\ RegionCall(ret)
  /\ Len(ret.result) > 0
  /\ \E i \in 1..Len(complaints) : OutsideRegion(complaints[i])

\* C9: get_recent_complaints(limit) returns min(limit, number of stored
\* complaints) complaints, which are the ones created last, in strictly
\* descending order of creation (a complaint precedes every complaint
\* created before it); on an empty store the result is empty.
C9_RecentStrictlyDescending ==
  ret.op = "get_recent_complaints" =>
    /\ Len(ret.result) = Min(ret.limit, Len(complaints))
    /\ ResultIds(ret) =
         (Len(complaints) - Min(ret.limit, Len(complaints)) + 1)..Len(complaints)
    /\ \A i, j \in 1..Len(ret.result) :
         i < j => ret.result[i].id > ret.result[j].id
    /\ complaints = <<>> => ret.result = <<>>

\* C10: get_complaint finds nothing for an id that was never created, and
\* for a stored complaint returns exactly the photos attached to it, each
\* once, in ascending display order and then creation time.
C10_GetComplaint ==
  ret.op = "get_complaint" =>
    IF ~Exists(ret.complaint_id)
    THEN ret.found = FALSE /\ ret.result = <<>>
    ELSE /\ ret.found
         /\ Len(ret.result) = 1
         /\ ret.result[1].id = ret.complaint_id
         /\ LET ph == ret.result[1].photos IN
              /\ {ph[i].id : i \in 1..Len(ph)} =
                   {p \in 1..Len(photos) : photos[p].complaint_id = ret.complaint_id}
              /\ \A i, j \in 1..Len(ph) : i # j => ph[i].id # ph[j].id
              /\ \A i, j \in 1..Len(ph) :
                   i < j =>
                     \/ ph[i].display_order < ph[j].display_order
                     \/ /\ ph[i].display_order = ph[j].display_order
                        /\ photos[ph[i].id].created_at <= photos[ph[j].id].created_at

\* C10 witness: two photos of one complaint come back in display order,
\* which is not the order in which they were attached.
C10_Witness ==
  /\ ret.op = "get_complaint"
  /\ ret.found
  /\ Len(ret.result[1].photos) = 2
  /\ ret.result[1].photos[1].id > ret.result[1].photos[2].id

--------------------------------------------------------------------------
(* Claims about the layer store *)

IsListCall(call) == call.op = "get_all_active_layers"

IsUserEntry(entry) == entry.layer_type = "user_uploaded"

\* The positions of the static and of the user layers in a listing.
StaticPart(result) == {i \in 1..Len(result) : ~IsUserEntry(result[i])}

UserPart(result) == {i \in 1..Len(result) : IsUserEntry(result[i])}

\* C11: get_all_active_layers returns every static layer with
\* is_active = true, each once, in ascending display order, followed by
\* every user layer with is_active = true and is_public = true, each once,
\* in descending order of creation time; no user layer precedes a static
\* layer, and inactive layers and private user layers do not appear.
C11_ActiveLayerListing ==
  IsListCall(ret) =>
    /\ \A i \in UserPart(ret.result), j \in StaticPart(ret.result) : j < i
    /\ {ret.result[i].id : i \in StaticPart(ret.result)} =
         {k \in 1..Len(static_layers) : static_layers[k].is_active}
    /\ {ret.result[i].id : i \in UserPart(ret.result)} =
         {k \in 1..Len(user_layers) :
            user_layers[k].is_active /\ user_layers[k].is_public}
    /\ \A i, j \in StaticPart(ret.result) :
         /\ i # j => ret.result[i].id # ret.result[j].id
         /\ i < j => static_layers[ret.result[i].id].display_order
                       <= static_layers[ret.result[j].id].display_order
    /\ \A i, j \in UserPart(ret.result) :
         /\ i # j => ret.result[i].id # ret.result[j].id
         /\ i < j => user_layers[ret.result[i].id].created_at
                       >= user_layers[ret.result[j].id].created_at
    /\ \A i \in 1..Len(ret.result) : ret.result[i].is_active

\* C11 witness: a listing of static layers followed by a user layer, made
\* while a static layer is switched off and a private user layer is stored.
C11_Witness ==
  /\ IsListCall(ret)
  /\ Cardinality(StaticPart(ret.result)) = 4
  /\ Cardinality(UserPart(ret.result)) = 1
  /\ \E k \in 1..Len(static_layers) : ~static_layers[k].is_active
  /\ \E k \in 1..Len(user_layers) : ~user_layers[k].is_public

IsSaveCall(call) == call.op = "save_user_layer"

HasKmlEntry(file_content) ==
  \E i \in 1..Len(file_content.entries) :
    EndsWith(file_content.entries[i].name, <<".","k","m","l">>)

\* C12: save_user_layer ingests first and persists nothing when the
\* ingestion fails: a call that declares KMZ with bytes that are no
\* archive, or with an archive without a .kml entry, fails in the
\* ingestion, and a call whose ingestion fails writes no file, creates no
\* directory, stores no record and returns None.
C12_NothingPersistedOnIngestionFailure ==
  [][ IsSaveCall(ret') =>
        /\ ( /\ ret'.upload.file_type = "kmz"
             /\ \/ ~ret'.upload.file_content.opens
                \/ ~HasKmlEntry(ret'.upload.file_content) )
           => ret'.ingested = <<>>
        /\ ret'.ingested = <<>> =>
             /\ ret'.ok = FALSE
             /\ ret'.id = 0
             /\ layer_files' = layer_files
             /\ layer_dir_exists' = layer_dir_exists
             /\ user_layers' = user_layers ]_vars

\* C12 witness: an archive without a .kml entry was refused while another
\* layer and its file are stored.
C12_Witness ==
  /\ IsSaveCall(ret)
  /\ ret.upload.file_type = "kmz"
  /\ ret.upload.file_content.opens
  /\ ~HasKmlEntry(ret.upload.file_content)
  /\ ret.ok = FALSE
  /\ Len(user_layers) > 0
  /\ layer_files # {}

\* C13: any two stored user layers have different storage paths, so that
\* no upload overwrites the file of another.
C13_UniqueStoragePaths ==
  \A i, j \in 1..Len(user_layers) :
    i # j => user_layers[i].file_path # user_layers[j].file_path

IsSeedCall(call) == call.op = "seed_default_layers"

\* C14: a call of seed_default_layers made while a static layer exists,
\* active or not, inserts, updates and deletes nothing, and so does a call
\* that follows a call that returned.
C14_SeedIdempotent ==
  [][ /\ (IsSeedCall(ret') /\ static_layers # <<>>) =>
           /\ static_layers' = static_layers
           /\ user_layers' = user_layers
           /\ layer_files' = layer_files
      /\ (IsSeedCall(ret) /\ ret.db # "fails" /\ IsSeedCall(ret')) =>
           static_layers' = static_layers ]_vars

\* C14 witness: a call found rows, one of them switched off, and user
\* layers besides.
C14_Witness ==
  /\ IsSeedCall(ret)
  /\ ret.existing
  /\ Len(static_layers) = 5
  /\ \E k \in 1..Len(static_layers) : ~static_layers[k].is_active
  /\ user_layers # <<>>

FiveTypes ==
  {"rice_fields", "irrigation", "regency_roads", "regency_boundaries",
   "village_boundaries"}

\* C15: a call of seed_default_layers on a store without static layers
\* whose commit goes through inserts exactly five static layers, one of
\* each of the five types, with the display orders 1..5, each active and
\* with an empty feature collection; a listing of the seeded store made
\* while all five are active contains the five types.
C15_SeedInsertsCatalog ==
  /\ [][ (IsSeedCall(ret') /\ static_layers = <<>> /\ ret'.db = "ok") =>
           /\ Len(static_layers') = 5
           /\ {static_layers'[k].layer_type : k \in 1..5} = FiveTypes
           /\ {static_layers'[k].display_order : k \in 1..5} = 1..5
           /\ \A k \in 1..5 :
                /\ static_layers'[k].is_active
                /\ static_layers'[k].geom_data.type = "FeatureCollection"
                /\ static_layers'[k].geom_data.features = <<>> ]_vars
  /\ []( ( /\ IsListCall(ret)
           /\ Len(static_layers) = 5
           /\ \A k \in 1..5 : static_layers[k].is_active )
         => FiveTypes \subseteq {ret.result[i].layer_type : i \in 1..Len(ret.result)} )

\* C15 witness: the catalog was inserted into a store that held user
\* layers and no static layer.
C15_Witness ==
  /\ IsSeedCall(ret)
  /\ ret.inserted = 5
  /\ Len(static_layers) = 5
  /\ user_layers # <<>>

FirstKmlIndex(file_content) ==
  CHOOSE i \in 1..Len(file_content.entries) :
    /\ EndsWith(file_content.entries[i].name, <<".","k","m","l">>)
    /\ \A j \in 1..(i - 1) :
         ~EndsWith(file_content.entries[j].name, <<".","k","m","l">>)

\* C17: the ingestion of a KMZ archive fails when no entry name ends in
\* .kml; otherwise it reads the first such entry only: it fails when that
\* entry does not read back, whatever the later entries are, and else
\* returns a feature collection whose metadata has that entry's name (not
\* the name of the uploaded file) as source_file and kml as format.
C17_KmzFirstEntry ==
  ( /\ IsSaveCall(ret)
    /\ ret.upload.file_type = "kmz"
    /\ ret.upload.file_content.opens ) =>
    LET c == ret.upload.file_content IN
    IF ~HasKmlEntry(c) THEN ret.ingested = <<>>
    ELSE IF ~c.entries[FirstKmlIndex(c)].intact THEN ret.ingested = <<>>
    ELSE /\ Len(ret.ingested) = 1
         /\ ret.ingested[1].type = "FeatureCollection"
         /\ ret.ingested[1].metadata.source_file = c.entries[FirstKmlIndex(c)].name
         /\ ret.ingested[1].metadata.source_file # ret.upload.filename
         /\ ret.ingested[1].metadata.format = "kml"

\* C17 witness: an archive whose first .kml entry is its second entry and
\* which has a later .kml entry was ingested and stored.
C17_Witness ==
  /\ IsSaveCall(ret)
  /\ ret.upload.file_type = "kmz"
  /\ ret.ok
  /\ FirstKmlIndex(ret.upload.file_content) = 2
  /\ \E i \in 3..Len(ret.upload.file_content.entries) :
       EndsWith(ret.upload.file_content.entries[i].name, <<".","k","m","l">>)
  /\ user_layers[ret.id].geom_data.metadata.source_file =
       ret.upload.file_content.entries[2].name

\* C18: save_user_layer with a declared type other than kml, kmz and shp
\* fails before it touches the file system or the database: the upload
\* directory is not created, no file is written and no record is stored.
C18_UnsupportedTypeNoIO ==
  [][ (IsSaveCall(ret') /\ ret'.upload.file_type \notin {"kml", "kmz", "shp"}) =>
        /\ ret'.ok = FALSE
        /\ ret'.disk = "not_reached"
        /\ ret'.db = "not_reached"
        /\ layer_dir_exists' = layer_dir_exists
        /\ layer_files' = layer_files
        /\ user_layers' = user_layers ]_vars

\* C18 witness: such a call was refused and the upload directory does not
\* exist.
C18_Witness ==
  /\ IsSaveCall(ret)
  /\ ret.upload.file_type = "gpx"
  /\ ret.ok = FALSE
  /\ ~layer_dir_exists
  /\ layer_files = {}

IsFeatureCollectionValue(g) ==
  /\ {"type", "features"} \subseteq DOMAIN g
  /\ g.type = "FeatureCollection"
  /\ DOMAIN g.features = 1..Len(g.features)

\* C19: the geom_data of every stored static layer and user layer is a
\* feature collection: an object with type FeatureCollection and a list of
\* features, which may be empty; it is never absent or the empty object.
C19_GeometryIsFeatureCollection ==
  /\ \A k \in 1..Len(static_layers) :
       IsFeatureCollectionValue(static_layers[k].geom_data)
  /\ \A k \in 1..Len(user_layers) :
       IsFeatureCollectionValue(user_layers[k].geom_data)

\* C19 witness: the seeded layers, a shapefile layer and an archive layer
\* are stored.
C19_Witness ==
  /\ Len(static_layers) = 5
  /\ \E k \in 1..Len(user_layers) : user_layers[k].file_type = "shp"
  /\ \E k \in 1..Len(user_layers) : user_layers[k].file_type = "kmz"

IsValidateCall(call) == call.op = "validate_coordinates"

\* C20: validate_coordinates(latitude, longitude) is true exactly when
\* -8.8 <= latitude <= -8.3 and 115.9 <= longitude <= 116.4, the four
\* bounds included; it is true of the default center (-8.55, 116.15).
C20_ValidateInRegion ==
  /\ IsValidateCall(ret) =>
       ( ret.result <=>
           /\ 0 - 880 <= ret.latitude /\ ret.latitude <= 0 - 830
           /\ 11590 <= ret.longitude /\ ret.longitude <= 11640 )
  /\ get_default_map_center = <<0 - 855, 11615>>
  /\ ( /\ IsValidateCall(ret)
       /\ <<ret.latitude, ret.longitude>> = get_default_map_center )
     => ret.result

\* C20 witness: the north-east corner of the region was found inside.
C20_Witness ==
  /\ IsValidateCall(ret)
  /\ ret.latitude = 0 - 830
  /\ ret.longitude = 11640
  /\ ret.result

--------------------------------------------------------------------------
(* Claims about the geometry *)

IsAreaOfCall(call) == call.op = "calculate_area"

\* x[k] * (y[k+1] - y[k-1]) summed over the points 1..k of the cyclic
\* sequence c.
RECURSIVE CyclicSum(_, _)
CyclicSum(c, k) ==
  IF k = 0 THEN 0
  ELSE CyclicSum(c, k - 1)
         + c[k][1] * ( c[IF k = Len(c) THEN 1 ELSE k + 1][2]
                       - c[IF k = 1 THEN Len(c) ELSE k - 1][2] )

\* C21: calculate_area returns 0 for fewer than 3 points and otherwise
\* half the absolute value of the shoelace sum over the cyclic sequence,
\* which is never negative: 0.5 for the unit right triangle and 4 for the
\* 2x2 square (results in halves of a square unit: 1 and 8).
C21_PolygonArea ==
  IsAreaOfCall(ret) =>
    /\ Len(ret.coordinates) < 3 => ret.result = 0
    /\ Len(ret.coordinates) >= 3 =>
         \/ ret.result = CyclicSum(ret.coordinates, Len(ret.coordinates))
         \/ ret.result = 0 - CyclicSum(ret.coordinates, Len(ret.coordinates))
    /\ ret.result >= 0
    /\ ret.coordinates = <<(<<0, 0>>), (<<1, 0>>), (<<0, 1>>)>> => ret.result = 1
    /\ ret.coordinates = <<(<<0, 0>>), (<<2, 0>>), (<<2, 2>>), (<<0, 2>>)>>
         => ret.result = 8

\* C21 witness: the area of the unit right triangle, its points taken
\* clockwise, so that the shoelace sum is negative.
C21_Witness ==
  /\ IsAreaOfCall(ret)
  /\ ret.coordinates = <<(<<0, 0>>), (<<0, 1>>), (<<1, 0>>)>>
  /\ ret.result = 1

--------------------------------------------------------------------------
(* Claims about failures *)

IsMutatingCall(call) ==
  call.op \in {"create_complaint", "add_photo_to_complaint",
               "mark_redirected", "save_user_layer"}

\* The kind of failure that a call met, as the taxonomy of the
\* specification names it.
FailureKind(call) ==
  IF call.op = "add_photo_to_complaint"
  THEN IF call.mime_type \notin {"image/jpeg", "image/png", "image/gif", "image/webp"}
       THEN "unsupported_media_type"
       ELSE IF call.size > 5242880 THEN "payload_too_large"
       ELSE "storage_failure"
  ELSE IF call.op = "save_user_layer"
  THEN IF call.upload.file_type \notin {"kml", "kmz", "shp"}
       THEN "unsupported_format"
       ELSE IF call.ingested = <<>> THEN "corrupt_archive"
       ELSE "storage_failure"
  ELSE IF call.op = "mark_redirected" /\ call.before = <<>> THEN "not_found"
  ELSE "storage_failure"

\* What a call hands back to its caller: the entity (its id) or None, or
\* for mark_redirected the boolean.
Returned(call) ==
  IF call.op = "mark_redirected" THEN <<call.ok>> ELSE <<call.ok, call.id>>

\* C22: a mutating operation returns the entity or reports a typed
\* failure: when two calls of one operation fail in different ways, what
\* they return to the caller differs.
C22_TypedFailures ==
  [][ ( /\ IsMutatingCall(ret) /\ IsMutatingCall(ret')
        /\ ret.op = ret'.op
        /\ ~ret.ok /\ ~ret'.ok
        /\ FailureKind(ret) # FailureKind(ret') )
      => Returned(ret) # Returned(ret') ]_vars

\* The style table of the specification, by declared type.
StyleOfType(file_type) ==
  LET c == IF file_type = "kmz" THEN "#ff7800"
           ELSE IF file_type = "shp" THEN "#ff3333"
           ELSE "#3388ff" IN
  [color |-> c, weight |-> 3, opacity |-> 80, fillColor |-> c, fillOpacity |-> 20]

\* C23: a successful save_user_layer adds exactly one user layer and
\* changes no other: the new layer is active, has the caller's name,
\* description, declared type, file name, public flag and uploader IP, the
\* number of uploaded bytes as its size, the default style of its type and
\* the geometry the ingestion returned; an active user layer is listed by
\* get_all_active_layers if and only if it is public.
C23_SavedLayerRecord ==
  /\ [][ (IsSaveCall(ret') /\ ret'.ok) =>
           /\ Len(user_layers') = Len(user_layers) + 1
           /\ SubSeq(user_layers', 1, Len(user_layers)) = user_layers
           /\ ret'.id = Len(user_layers')
           /\ LET layer == user_layers'[ret'.id]
                  upload == ret'.upload IN
                /\ layer.is_active
                /\ layer.name = upload.name
                /\ layer.description = upload.description
                /\ layer.file_type = upload.file_type
                /\ layer.original_filename = upload.filename
                /\ layer.is_public = upload.is_public
                /\ layer.upload_ip = upload.upload_ip
                /\ layer.file_size = upload.file_content.size
                /\ layer.style_properties = StyleOfType(upload.file_type)
                /\ ret'.ingested = <<layer.geom_data>> ]_vars
  /\ [](IsListCall(ret) =>
          \A k \in 1..Len(user_layers) :
            user_layers[k].is_active =>
              ( user_layers[k].is_public
                  <=> k \in {ret.result[i].id : i \in UserPart(ret.result)} ))

\* C23 witness: a private shapefile layer was saved after a public layer.
C23_Witness ==
  /\ IsSaveCall(ret)
  /\ ret.ok
  /\ ret.upload.file_type = "shp"
  /\ ~user_layers[ret.id].is_public
  /\ user_layers[ret.id].file_size = 7
  /\ \E k \in 1..Len(user_layers) : user_layers[k].is_public

--------------------------------------------------------------------------
(* Claims about redirect tracking *)

\* Session s has committed a redirect of complaint id to the platform.
Committed(s, id, platform) ==
  /\ sessions[s].pc = "done"
  /\ sessions[s].ok
  /\ sessions[s].complaint_id = id
  /\ Lower(sessions[s].platform) = platform

\* C24: when a request marking a complaint for facebook and a request
\* marking it for lapor, each in its own session, have both committed, both
\* flags of the complaint are set and its status is COMPLETED, whatever the
\* order of their steps.
C24_ConcurrentRedirectsComplete ==
  \A id \in 1..Len(complaints) :
    \A s \in Sessions, t \in Sessions :
      (Committed(s, id, Facebook) /\ Committed(t, id, Lapor))
        => /\ complaints[id].facebook_redirected
           /\ complaints[id].lapor_redirected
           /\ complaints[id].status = COMPLETED

\* The platform name selects one of the two flags.
KnownPlatform(platform) == Lower(platform) \in {Facebook, Lapor}

\* The redirect progress of a complaint: its two flags and its status.
Progress(c) == <<c.facebook_redirected, c.lapor_redirected, c.status>>

\* C25: mark_redirected on an existing complaint with a platform name that
\* is neither facebook nor lapor in any letter case leaves the complaint's
\* two flags and its status as they were.
C25_UnknownPlatformNoChange ==
  [][ ( /\ IsMark(ret')
        /\ Exists(ret'.complaint_id)
        /\ ~KnownPlatform(ret'.platform) )
      => Progress(complaints'[ret'.complaint_id])
           = Progress(complaints[ret'.complaint_id]) ]_vars

\* C26: redirect progress never goes backwards: a flag that is set stays
\* set, a COMPLETED complaint stays COMPLETED, and no complaint returns to
\* SUBMITTED after leaving it.
C26_ProgressMonotone ==
  [][ \A i \in 1..Len(complaints) :
        /\ i \in 1..Len(complaints')
        /\ complaints[i].facebook_redirected
             => complaints'[i].facebook_redirected
        /\ complaints[i].lapor_redirected => complaints'[i].lapor_redirected
        /\ complaints[i].status = COMPLETED
             => complaints'[i].status = COMPLETED
        /\ complaints[i].status # SUBMITTED
             => complaints'[i].status # SUBMITTED ]_vars

\* C26 witness: a call went through on a complaint that was COMPLETED, with
\* a platform name that selects no flag, and the complaint is COMPLETED.
C26_Witness ==
  /\ IsMark(ret) /\ ret.ok
  /\ ~KnownPlatform(ret.platform)
  /\ ret.before[1].status = COMPLETED
  /\ complaints[ret.complaint_id].status = COMPLETED
  /\ complaints[ret.complaint_id].facebook_redirected
  /\ complaints[ret.complaint_id].lapor_redirected

--------------------------------------------------------------------------
(* Claims about stored files and photo order *)

\* C27: a successful add_photo_to_complaint leaves the uploaded bytes in
\* the file at the new record's path, and overwrites the complete file of
\* no earlier record with other bytes, also when the two uploads have the
\* same file name and the same length.
C27_NoOverwrite ==
  [][ (IsPhotoCall(ret') /\ ret'.ok)
      => /\ \A f \in files' :
              f.path = ret'.file_path
                => f.content = [size |-> ret'.size, body |-> ret'.body]
         /\ \A i \in 1..Len(photos) : \A f \in files :
              (f.path = photos[i].file_path /\ f.content # Truncated)
                => f \in files' ]_vars

\* C28: every photo record refers to a complaint that exists, and a call
\* of add_photo_to_complaint with an id that was never created stores no
\* record and leaves no file.
C28_PhotosOfExistingComplaints ==
  /\ [](\A p \in 1..Len(photos) : Exists(photos[p].complaint_id))
  /\ [][ (IsPhotoCall(ret') /\ ~Exists(ret'.complaint_id))
         => /\ photos' = photos
            /\ files' = files ]_vars

\* The call is add_photo_to_complaint or save_user_layer.
IsUploadCall(call) == IsPhotoCall(call) \/ IsSaveCall(call)

\* The paths that some stored record refers to.
ReferencedPaths ==
  {photos[i].file_path : i \in 1..Len(photos)}
    \cup {user_layers[i].file_path : i \in 1..Len(user_layers)}

\* C29: add_photo_to_complaint and save_user_layer are all-or-nothing: when
\* the database fails after the file was written, the call reports the
\* failure and the file it wrote is not left behind without a record.
C29_NoFileWithoutRecord ==
  [][ (IsUploadCall(ret') /\ ret'.db = "fails")
      => /\ ret'.ok = FALSE
         /\ \A f \in files' \cup layer_files' :
              f.path = ret'.file_path => f.path \in ReferencedPaths' ]_vars

IsRecentCall(call) == call.op = "get_recent_complaints"

\* C30: the list queries give the photos of each complaint in the order
\* get_complaint gives them, display order and then creation time, also
\* when photos share a display order.
C30_SamePhotoOrder ==
  (IsRecentCall(ret) \/ IsAreaCall(ret))
    => \A k \in 1..Len(ret.result) :
         \E d \in DetailResponses(ret.result[k].id) :
           ret.result[k].photos = d.photos

==========================================================================
